---------------------------- MODULE Spec2Model ----------------------------
(***************************************************************************)
(* Model of the compute-dispatch and output-assembly code of syncopy /     *)
(* spykewave:                                                              *)
(*   - the trial-definition reconciler _make_trialdef (compRoutines.py),   *)
(*   - the compute kernels *_cF in planning and execution mode,            *)
(*   - the metadata merger and the FOOOF pack/unpack helpers,              *)
(*   - the mtmfft executor of spykewave (sequential and parallel path).    *)
(* Each part is a small state machine over its own group of variables; the *)
(* other groups stay at their idle value under that part's specification.  *)
(***************************************************************************)
EXTENDS Integers, Sequences, FiniteSets, TLC

VARIABLES
    \* ---- _make_trialdef -------------------------------------------------
    td_pc,            \* "idle" | "call" | "returned" | "raised"
    cfg,              \* cfg dictionary of the ComputationalRoutine: toi, method_kwargs
    samplerate,       \* sampling rate passed in / returned (a rational <<n, d>>)
    trialdefinition,  \* the caller's array (modified in place by the routine)
    td_orig,          \* copy of the table as it was before the call
    td_srate0,        \* the sampling rate as it was passed in
    td_ret,           \* the array object returned (<<>> before the return)
    td_warned,        \* TRUE once SPYWarning has been emitted
    keeptrials,       \* self.keeptrials as process_metadata reads it
    out_trl,          \* out.trialdefinition (<<>> while not attached)
    routine,          \* the ComputationalRoutine whose process_metadata runs
    selected,         \* data.selection is not None, as process_metadata reads it
    \* ---- spykewave mtmfft ----------------------------------------------
    pc,               \* position of mtmfft: "idle" | "start" | "dispatch" | "serial"
                      \*   | "compute" | "finalize" | "done" | "raised"
    shapes,           \* obj.shapes[k][1]: number of samples of segment k
    use_dask,         \* result of the dask-client probe
    res,              \* the memmap behind out._filename along its freq axis
    writers,          \* per element of res: the segments that wrote it, in order
    sk,               \* loop counter of the serial branch (segments done so far)
    task,             \* per segment: state of its delayed block and writer
    out,              \* attributes attached to the output object
    exc,              \* exception that left mtmfft (type "none" if none did)
    \* ---- compute kernels (*_cF) ----------------------------------------
    k_pc,             \* "idle" | "ready" | "planned" | "executed" | "raised"
    kernel,           \* name of the computeFunction
    trl_shape,        \* shape of trl_dat (of the FauxTrial and of the real trial)
    kw,               \* keyword arguments of the computeFunction
    method_kwargs,    \* the method_kwargs dictionary (shared by all invocations)
    planShape,        \* outShape returned with noCompute=True (<<>> before)
    execShape,        \* shape of the array returned with noCompute=False (<<>> before)
    \* ---- metadata of the output container ------------------------------
    m_pc,             \* "idle" | "listed" | "merged" | "regrouped" |
                      \* "computing" | "attached" | "raised"
    details,          \* per trial: what the FOOOF backend returns for it
    is_virtual,       \* the output 'data' dataset is virtual (one extent per trial)
    called,           \* trials whose fooofspy_cF call has returned
    extents,          \* per extent file: its 'metadata' group (None: no group)
    md_list,          \* the list handed to _merge_md_list
    metadata,         \* out.metadata / the bundle _merge_md_list returned
    regrouped,        \* the bundle obtained by merging in another order and grouping
    has_data,         \* 'data' in h5f: the container file holds the main dataset
    part_data,        \* per extent file: 'data' in h5f_virtual_part
    \* ---- check_workers_available ---------------------------------------
    w_pc,             \* "idle" | "called" | "waiting" | "waited" | "returned" | "raised"
    totalWorkers,     \* len(client.cluster.requested)
    minWorkers,       \* int(totalWorkers**0.7) (0 before it is computed)
    alive,            \* workers connected to the scheduler
    timeout,          \* the timeout argument, in clock ticks
    elapsed,          \* ticks spent in client.wait_for_workers
    w_log,            \* messages logged at level IMPORTANT
    \* ---- fooofspy_cF ---------------------------------------------------
    cf_pc,            \* "idle" | "ready" | "planned" | "computed" | "raised"
    cf_shape,         \* trl_dat.shape: (time, taper, freq, channel)
    cf_timeAxis,      \* the timeAxis argument
    cf_noCompute,     \* the noCompute argument of the last call
    cf_outShape,      \* shape returned with noCompute=True (<<>> before)
    cf_res,           \* shape of the array returned with noCompute=False (<<>> before)
    cf_backend,       \* the backend fooofspy has been invoked
    \* ---- logging (syncopy.shared.log, SPYLog) --------------------------
    lg_pc,            \* "idle" | "ready"
    loglevel,         \* threshold of the log file handler (SPYLOGLEVEL)
    logfile,          \* number of lines of syncopy.log
    lg_level,         \* level of the last entry emitted ("none" before)
    lg_before         \* number of lines of the file before that entry

tdvars == <<td_pc, cfg, samplerate, trialdefinition, td_orig, td_srate0, td_ret,
           td_warned, keeptrials, out_trl, routine, selected>>

exvars == <<pc, shapes, use_dask, res, writers, sk, task, out, exc>>

kvars == <<k_pc, kernel, trl_shape, kw, method_kwargs, planShape, execShape>>

mvars == <<m_pc, details, is_virtual, called, extents, md_list, metadata, regrouped,
          has_data, part_data>>

wvars == <<w_pc, totalWorkers, minWorkers, alive, timeout, elapsed, w_log>>

cfvars == <<cf_pc, cf_shape, cf_timeAxis, cf_noCompute, cf_outShape, cf_res,
           cf_backend>>

lgvars == <<lg_pc, loglevel, logfile, lg_level, lg_before>>

vars == <<tdvars, exvars, kvars, mvars, wvars, cfvars, lgvars>>

\* What an action of one part leaves alone: the variables of the other parts.
TdFrame == UNCHANGED <<exvars, kvars, mvars, wvars, cfvars, lgvars>>
ExFrame == UNCHANGED <<tdvars, kvars, mvars, wvars, cfvars, lgvars>>
KFrame == UNCHANGED <<tdvars, exvars, mvars, wvars, cfvars, lgvars>>
MFrame == UNCHANGED <<tdvars, exvars, kvars, wvars, cfvars, lgvars>>
WFrame == UNCHANGED <<tdvars, exvars, kvars, mvars, cfvars, lgvars>>
CfFrame == UNCHANGED <<tdvars, exvars, kvars, mvars, wvars, lgvars>>
LgFrame == UNCHANGED <<tdvars, exvars, kvars, mvars, wvars, cfvars>>

---------------------------------------------------------------------------
\* Bounds of the model.
MaxTrials == 3      \* number of trials (rows of a trial-definition table)
MaxLen == 3         \* number of samples of one trial
MaxToi == 3         \* number of time points of an explicit toi array
MaxNperseg == 3     \* window length in samples
MaxSegs == 3        \* number of segments (trials) of the mtmfft input
MaxTaper == 2       \* number of tapers (Kmax of taper_opt)
MaxScales == 2      \* number of wavelet / superlet scales
MaxBundles == 3     \* number of bundles handed to _merge_md_list
MaxPeaks == 2       \* number of peaks FOOOF fits in one channel
MaxWorkers == 4     \* number of requested workers
MaxTimeout == 2     \* timeout of the wait for workers, in clock ticks
MaxFreqs == 3       \* number of frequencies of a spectrum handed to fooofspy_cF
MaxLogLines == 5    \* lines the log file grows to
MaxMsgLines == 2    \* lines of one log message

\* Values the inputs are drawn from.
FirstStarts == {0, 2}       \* start sample of the first trial
Offsets == {-1, 0}          \* trigger offsets of the source table
ToiFirst == {1}             \* first time point of an explicit toi array
ToiSteps == {1, 2}          \* spacings between consecutive time points
SampleRates == {1000}       \* sampling rate of the source data (Hz)
SegLens == {1, 2, 3, 4}     \* samples per segment of the mtmfft input
TrialSamples == {3, 4, 7}   \* samples of the trial handed to a kernel
TrialChannels == {1, 2}     \* channels of the trial handed to a kernel
Fois == {<<0>>, <<1, 2>>, <<0, 1, 5>>}   \* foi, in units of the frequency step
FooofTrials == {0, 1, 2}    \* number of trials of a FOOOF run

---------------------------------------------------------------------------
\* Rational numbers <<n, d>> with d > 0 in lowest terms: the float cells of a
\* trial-definition array and the sampling rate.
Abs(x) == IF x < 0 THEN -x ELSE x

RECURSIVE GCD(_, _)
GCD(a, b) == IF b = 0 THEN a ELSE GCD(b, a % b)

Rat(n, d) ==
    LET s == IF d < 0 THEN -1 ELSE 1
        g == GCD(Abs(n), Abs(d))
    IN  <<(s * n) \div g, (s * d) \div g>>

RatInt(n) == <<n, 1>>
RatMul(a, b) == Rat(a[1] * b[1], a[2] * b[2])
RatDivInt(a, w) == Rat(a[1], a[2] * w)
RatAdd(a, b) == Rat(a[1] * b[2] + b[1] * a[2], a[2] * b[2])

\* np.ceil(a / w) for integers a >= 0, w > 0.
CeilDiv(a, w) == (a + w - 1) \div w

\* np.round(x, 2) of the rational x = n/d >= 0: round half to even at the
\* second decimal digit.
Round2(x) ==
    LET n == x[1] * 100
        q == n \div x[2]
        r == n % x[2]
        up == (2 * r > x[2]) \/ (2 * r = x[2] /\ q % 2 = 1)
    IN  Rat(IF up THEN q + 1 ELSE q, 100)

\* np.cumsum of a sequence of integers.
RECURSIVE SumTo(_, _)
SumTo(s, i) == IF i = 0 THEN 0 ELSE SumTo(s, i - 1) + s[i]

CumSum(s) == [i \in 1..Len(s) |-> SumTo(s, i)]

\* np.diff of a sequence of integers.
Diff(s) == [i \in 1..(Len(s) - 1) |-> s[i + 1] - s[i]]

\* np.diff(trialdefinition[:, :2]): the length stop - start of every row.
RowLens(trl) == [k \in 1..Len(trl) |-> trl[k].stop - trl[k].start]

---------------------------------------------------------------------------
\* _make_trialdef(cfg, trialdefinition, samplerate)

\* np.allclose(tSteps, [tSteps[0]] * tSteps.size): the time points are
\* integers here, so closeness within rtol = 1e-5 is equality.
AllClose(tSteps) == \A i \in 1..Len(tSteps) : tSteps[i] = tSteps[1]

\* Variant of the sampling rate that spans the whole toi array.
ToiSamplerateSpan(toi) == Rat(1, toi[Len(toi)] - toi[1])

\* samplerate = 1 / (toi[1] - toi[0])
ToiSamplerate(toi) == Rat(1, toi[2] - toi[1])

\* Branch `isinstance(toi, np.ndarray)`.  tSteps[0] raises IndexError for a
\* toi of one point, after the columns 0 and 1 were written in place.
TrialdefToiArray(toi, trl, srate) ==
    LET nToi == Len(toi)
        time == CumSum([k \in 1..Len(trl) |-> nToi])
        trl1 == [k \in 1..Len(trl) |->
                    [trl[k] EXCEPT !.start = time[k] - nToi, !.stop = time[k]]]
        tSteps == Diff(toi)
    IN  IF Len(tSteps) = 0
        THEN [raised |-> TRUE, trl |-> trl1, samplerate |-> srate, warned |-> FALSE]
        ELSE IF AllClose(tSteps)
        THEN LET sr == ToiSamplerate(toi)
             IN  [raised |-> FALSE,
                  trl |-> [k \in 1..Len(trl) |->
                              [trl1[k] EXCEPT !.t0 = RatMul(RatInt(toi[1]), sr)]],
                  samplerate |-> sr, warned |-> FALSE]
        ELSE LET sr == RatInt(1)
                 trl2 == [k \in 1..Len(trl) |-> [trl1[k] EXCEPT !.t0 = RatInt(0)]]
             IN  [raised |-> FALSE,
                  trl |-> [k \in 1..Len(trl) |->
                              [trl2[k] EXCEPT !.t0 = RatMul(RatInt(toi[1]), sr)]],
                  samplerate |-> sr, warned |-> TRUE]

\* Variant of the percentage branch that rounds the row counts down.
TrialdefToiNumberFloor(mKw, trl, srate) ==
    LET winSize == mKw.nperseg - mKw.noverlap
        lens == RowLens(trl)
        trialdefinitionLens == [k \in 1..Len(trl) |-> lens[k] \div winSize]
        sumLens == CumSum(trialdefinitionLens)
    IN  [raised |-> FALSE,
         trl |-> [k \in 1..Len(trl) |->
                     [trl[k] EXCEPT !.start = sumLens[k] - trialdefinitionLens[k],
                                    !.stop = sumLens[k],
                                    !.t0 = RatDivInt(trl[k].t0, winSize)]],
         samplerate |-> Round2(RatDivInt(srate, winSize)),
         warned |-> FALSE]

\* Branch `np.issubdtype(type(toi), np.number)`: toi is a percentage.
TrialdefToiNumber(mKw, trl, srate) ==
    LET winSize == mKw.nperseg - mKw.noverlap
        lens == RowLens(trl)
        trialdefinitionLens == [k \in 1..Len(trl) |-> CeilDiv(lens[k], winSize)]
        sumLens == CumSum(trialdefinitionLens)
    IN  [raised |-> FALSE,
         trl |-> [k \in 1..Len(trl) |->
                     [trl[k] EXCEPT !.start = sumLens[k] - trialdefinitionLens[k],
                                    !.stop = sumLens[k],
                                    !.t0 = RatDivInt(trl[k].t0, winSize)]],
         samplerate |-> Round2(RatDivInt(srate, winSize)),
         warned |-> FALSE]

\* Branch else: toi is "all".  Row 0 keeps its start column.
TrialdefToiAll(trl, srate) ==
    LET bounds == CumSum(RowLens(trl))
    IN  [raised |-> FALSE,
         trl |-> [k \in 1..Len(trl) |->
                     [trl[k] EXCEPT !.start = IF k = 1 THEN trl[k].start
                                               ELSE bounds[k - 1],
                                    !.stop = bounds[k]]],
         samplerate |-> srate, warned |-> FALSE]

make_trialdef(c, trl, srate) ==
    IF c.toikind = "array" THEN TrialdefToiArray(c.toi, trl, srate)
    ELSE IF c.toikind = "number" THEN TrialdefToiNumber(c.method_kwargs, trl, srate)
    ELSE TrialdefToiAll(trl, srate)

---------------------------------------------------------------------------
\* Inputs of _make_trialdef.

\* Explicit toi arrays: strictly increasing time points.
RECURSIVE ToiFrom(_, _)
ToiFrom(t, steps) ==
    IF Len(steps) = 0 THEN <<t>>
    ELSE <<t>> \o ToiFrom(t + steps[1], SubSeq(steps, 2, Len(steps)))

ToiArrays ==
    {ToiFrom(t, st) : t \in ToiFirst,
                      st \in UNION {[1..n -> ToiSteps] : n \in 0..(MaxToi - 1)}}

\* method_kwargs of mtmconvol: the frontend keeps noverlap < nperseg.
WindowKwargs ==
    {m \in [nperseg : 1..MaxNperseg, noverlap : 0..(MaxNperseg - 1)] :
        m.noverlap < m.nperseg}

NoKwargs == [nperseg |-> 1, noverlap |-> 0]

Cfgs ==
    {[toikind |-> "array", toi |-> t, method_kwargs |-> NoKwargs] : t \in ToiArrays}
    \cup {[toikind |-> "number", toi |-> <<>>, method_kwargs |-> m] : m \in WindowKwargs}
    \cup {[toikind |-> "all", toi |-> <<>>, method_kwargs |-> NoKwargs]}

\* Source tables: trial k + 1 starts where trial k stops; every trial holds
\* at least one sample; column 3 and on (trialinfo) carry per-trial values.
RECURSIVE TableFrom(_, _, _, _)
TableFrom(s, lens, offs, k) ==
    IF k > Len(lens) THEN <<>>
    ELSE <<[start |-> s, stop |-> s + lens[k], t0 |-> RatInt(offs[k]),
            info |-> 100 + k]>>
         \o TableFrom(s + lens[k], lens, offs, k + 1)

\* Trigger offsets of n trials: the same for all, or alternating -1, 0, ...
OffsetColumns(n) ==
    {[k \in 1..n |-> o] : o \in Offsets} \cup {[k \in 1..n |-> -(k % 2)]}

Tables ==
    UNION {{TableFrom(s, lens, offs, 1) :
                s \in FirstStarts, lens \in [1..n -> 1..MaxLen], offs \in OffsetColumns(n)}
           : n \in 1..MaxTrials}

TdIdle ==
    /\ td_pc = "idle"
    /\ cfg = [toikind |-> "all", toi |-> <<>>, method_kwargs |-> NoKwargs]
    /\ samplerate = RatInt(1)
    /\ trialdefinition = <<>>
    /\ td_orig = <<>>
    /\ td_srate0 = RatInt(1)
    /\ td_ret = <<>>
    /\ td_warned = FALSE
    /\ keeptrials = TRUE
    /\ out_trl = <<>>
    /\ routine = "none"
    /\ selected = FALSE

TdInit ==
    /\ td_pc = "call"
    /\ \/ /\ routine = "MultiTaperFFTConvol"
          /\ cfg \in Cfgs
       \/ /\ routine = "MultiTaperFFT"
          /\ cfg = [toikind |-> "all", toi |-> <<>>, method_kwargs |-> NoKwargs]
    /\ samplerate \in {RatInt(r) : r \in SampleRates}
    /\ trialdefinition \in Tables
    /\ td_orig = trialdefinition
    /\ td_srate0 = samplerate
    /\ td_ret = <<>>
    /\ td_warned = FALSE
    /\ keeptrials = TRUE
    /\ out_trl = <<>>
    /\ selected = FALSE

\* trl[:, 2].mean()
RECURSIVE SumT0(_, _)
SumT0(trl, k) == IF k = 0 THEN RatInt(0) ELSE RatAdd(SumT0(trl, k - 1), trl[k].t0)

MeanT0(trl) == RatDivInt(SumT0(trl, Len(trl)), Len(trl))

\* `if not self.keeptrials:` t0 = trl[:, 2].mean(); trl = trl[[0], :];
\* trl[:, 2] = t0
AverageTrials(trl) == <<[trl[1] EXCEPT !.t0 = MeanT0(trl)]>>

\* process_metadata of MultiTaperFFTConvol, WaveletTransform and
\* SuperletTransform: _make_trialdef on the source's table (in place), the
\* collapse to one row if trials are averaged, and the attachment to out.
MakeTrialdef ==
    /\ td_pc = "call"
    /\ routine = "MultiTaperFFTConvol"
    /\ \E kt \in BOOLEAN :
          LET r == make_trialdef(cfg, trialdefinition, samplerate)
          IN  /\ keeptrials' = kt
              /\ trialdefinition' = r.trl
              /\ td_warned' = r.warned
              /\ IF r.raised
                 THEN /\ td_pc' = "raised"
                      /\ td_ret' = <<>>
                      /\ out_trl' = <<>>
                      /\ samplerate' = samplerate
                 ELSE /\ td_pc' = "returned"
                      /\ td_ret' = r.trl
                      /\ out_trl' = IF kt THEN r.trl ELSE AverageTrials(r.trl)
                      /\ samplerate' = r.samplerate
    /\ UNCHANGED <<cfg, td_orig, td_srate0, routine, selected>>
    /\ TdFrame

\* Variant of the mtmfft table that fills the info columns with zeros.
MtmfftTrialdefNoInfo(trl, sel) ==
    [k \in 1..Len(trl) |->
        [start |-> k - 1, stop |-> k,
         t0 |-> IF sel THEN trl[k].t0 ELSE RatInt(0), info |-> 0]]

\* The table of MultiTaperFFT.process_metadata: row k is [k, k + 1]; with a
\* selection the selection's table is rewritten in place (offsets stay),
\* else a table is built from zeros and data.trialinfo.
MtmfftTrialdef(trl, sel) ==
    [k \in 1..Len(trl) |->
        [start |-> k - 1, stop |-> k,
         t0 |-> IF sel THEN trl[k].t0 ELSE RatInt(0), info |-> trl[k].info]]

\* np.array([[0, 1, 0]]): a single row without info columns (info 0).
SingleTrial == <<[start |-> 0, stop |-> 1, t0 |-> RatInt(0), info |-> 0]>>

\* MultiTaperFFT.process_metadata
MtmfftProcessMetadata ==
    /\ td_pc = "call"
    /\ routine = "MultiTaperFFT"
    /\ \E kt \in BOOLEAN, sel \in BOOLEAN :
          LET trl == MtmfftTrialdef(trialdefinition, sel)
          IN  /\ keeptrials' = kt
              /\ selected' = sel
              /\ trialdefinition' = IF sel THEN trl ELSE trialdefinition
              /\ out_trl' = IF kt THEN trl ELSE SingleTrial
    /\ td_pc' = "returned"
    /\ UNCHANGED <<cfg, samplerate, td_orig, td_srate0, td_ret, td_warned, routine>>
    /\ TdFrame

TdNext ==
    \/ MakeTrialdef
    \/ MtmfftProcessMetadata

---------------------------------------------------------------------------
\* spykewave.specest.mtmfft: allocation, serial / parallel execution, finalize.
\* Segments are numbered from 0 as in the source; sequences are 1-based.

_nextpow2(number) ==
    LET RECURSIVE Grow(_)
        Grow(n) == IF n < number THEN Grow(n * 2) ELSE n
    IN  Grow(1)

\* A loop over all segments but the last.
NSegsButLast == Len(shapes) - 1

NSegs == Len(shapes)
Segs == 0..(NSegs - 1)

\* nSamples = _nextpow2(obj.shapes[0][1]); nFreq = floor(nSamples / 2) + 1.
nSamples == _nextpow2(shapes[1])
nFreq == (nSamples \div 2) + 1

\* _mtmfft_byseg pads the segment to _nextpow2 of its own length and multiplies
\* it with the taper of nSamples points.  NumPy broadcasts the product when the
\* lengths agree or the padded segment has one sample; otherwise `seg * tap`
\* (or the assignment of a spectrum of another size) raises ValueError.
KernelRaises(k) ==
    LET n == _nextpow2(shapes[k + 1])
    IN  n # nSamples /\ n # 1

\* Element j of the spectrum of segment k.
Spectrum(k) == [j \in 1..nFreq |-> <<k, j>>]

\* Variant of the writer's index: the first chunk coordinate, always 0.
ChunkLocationFirst(k) == 0

\* idx = block_info[0]["chunk-location"][-1]: the block's place on the freq axis.
ChunkLocation(k) == k

\* The index range [idx*nFreq, (idx + 1)*nFreq) as 1-based positions of res.
Slab(idx) == (idx * nFreq + 1)..((idx + 1) * nFreq)

\* An element of the fresh memmap (0 + 0j): the value of no segment.
Zero == <<-1, 0>>

NoOutput == [seg |-> <<>>, data |-> "none", log |-> ""]
NoException == [type |-> "none", trials |-> {}]

ExIdle ==
    /\ pc = "idle"
    /\ shapes = <<>>
    /\ use_dask = FALSE
    /\ res = <<>>
    /\ writers = <<>>
    /\ sk = 0
    /\ task = <<>>
    /\ out = NoOutput
    /\ exc = NoException

\* The module never imports get_client, so the probe depends on the name
\* being provided by the running session; both outcomes are kept.
ExInit ==
    /\ pc = "start"
    /\ shapes \in UNION {[1..n -> SegLens] : n \in 1..MaxSegs}
    /\ use_dask \in BOOLEAN
    /\ res = <<>>
    /\ writers = <<>>
    /\ sk = 0
    /\ task = [k \in 1..Len(shapes) |-> [st |-> "pending", pos |-> 0]]
    /\ out = NoOutput
    /\ exc = NoException

\* open_memmap(out._filename, shape=(..., nFreq*len(obj.segments)), mode="w+")
Allocate ==
    /\ pc = "start"
    /\ res' = [i \in 1..(nFreq * NSegs) |-> Zero]
    /\ writers' = [i \in 1..(nFreq * NSegs) |-> <<>>]
    /\ pc' = "dispatch"
    /\ UNCHANGED <<shapes, use_dask, sk, task, out, exc>>
    /\ ExFrame

\* if use_dask: ... result.compute()   else: for sk, seg in enumerate(...)
Dispatch ==
    /\ pc = "dispatch"
    /\ pc' = IF use_dask THEN "compute" ELSE "serial"
    /\ UNCHANGED <<shapes, use_dask, res, writers, sk, task, out, exc>>
    /\ ExFrame

\* One pass of the serial loop: compute the spectrum and assign it to the slice
\* [sk*nFreq, (sk + 1)*nFreq); an exception of the kernel leaves mtmfft.
SerialStep ==
    /\ pc = "serial"
    /\ sk < NSegs
    /\ IF KernelRaises(sk)
       THEN /\ pc' = "raised"
            /\ exc' = [type |-> "ValueError", trials |-> {}]
            /\ task' = [task EXCEPT ![sk + 1].st = "failed"]
            /\ UNCHANGED <<res, writers, sk>>
       ELSE /\ res' = [i \in 1..Len(res) |->
                         IF i \in Slab(sk) THEN Spectrum(sk)[i - sk * nFreq]
                         ELSE res[i]]
            /\ writers' = [i \in 1..Len(res) |->
                             IF i \in Slab(sk) THEN Append(writers[i], sk)
                             ELSE writers[i]]
            /\ task' = [task EXCEPT ![sk + 1].st = "written", ![sk + 1].pos = nFreq]
            /\ sk' = sk + 1
            /\ UNCHANGED <<pc, exc>>
    /\ UNCHANGED <<shapes, use_dask, out>>
    /\ ExFrame

SerialEnd ==
    /\ pc = "serial"
    /\ sk = NSegs
    /\ pc' = "finalize"
    /\ UNCHANGED <<shapes, use_dask, res, writers, sk, task, out, exc>>
    /\ ExFrame

\* A worker runs _mtmfft_byseg on block k of the dask array.
BlockCompute(k) ==
    /\ pc = "compute"
    /\ task[k + 1].st = "pending"
    /\ task' = [task EXCEPT ![k + 1].st =
                   IF KernelRaises(k) THEN "failed" ELSE "computed"]
    /\ UNCHANGED <<pc, shapes, use_dask, res, writers, sk, out, exc>>
    /\ ExFrame

\* A worker runs _mtmfft_writer on the spectrum of block k: it opens the memmap
\* and copies the block into its slice, one element after the other.  A writer
\* that has started is not interrupted when compute() raises.
BlockWrite(k) ==
    /\ pc \in {"compute", "raised"}
    /\ \/ task[k + 1].st = "computed" /\ pc = "compute"
       \/ task[k + 1].st = "writing"
    /\ LET idx == ChunkLocation(k)
           j == task[k + 1].pos + 1
           i == idx * nFreq + j
       IN  /\ res' = [res EXCEPT ![i] = Spectrum(k)[j]]
           /\ writers' = [writers EXCEPT ![i] = Append(@, k)]
           /\ task' = [task EXCEPT ![k + 1].pos = j,
                                   ![k + 1].st = IF j = nFreq THEN "written"
                                                 ELSE "writing"]
    /\ UNCHANGED <<pc, shapes, use_dask, sk, out, exc>>
    /\ ExFrame

\* result.compute() returns once every block has been written.
ComputeReturns ==
    /\ pc = "compute"
    /\ \A k \in Segs : task[k + 1].st = "written"
    /\ pc' = "finalize"
    /\ UNCHANGED <<shapes, use_dask, res, writers, sk, task, out, exc>>
    /\ ExFrame

\* result.compute() re-raises the exception of a failed block as soon as the
\* scheduler learns of it; blocks that were not started are dropped.
ComputeRaises ==
    /\ pc = "compute"
    /\ \E k \in Segs : task[k + 1].st = "failed"
    /\ pc' = "raised"
    /\ exc' = [type |-> "ValueError", trials |-> {}]
    /\ UNCHANGED <<shapes, use_dask, res, writers, sk, task, out>>
    /\ ExFrame

\* Attach dimensional info, sampling rate, segment table and data handle.
Finalize ==
    /\ pc = "finalize"
    /\ out' = [seg |-> [k \in 1..NSegs |-> <<(k - 1) * nFreq, k * nFreq>>],
               data |-> "memmap", log |-> "computed multi-taper FFT with settings..."]
    /\ pc' = "done"
    /\ UNCHANGED <<shapes, use_dask, res, writers, sk, task, exc>>
    /\ ExFrame

ExNext ==
    \/ Allocate
    \/ Dispatch
    \/ SerialStep
    \/ SerialEnd
    \/ \E k \in Segs : BlockCompute(k)
    \/ \E k \in Segs : BlockWrite(k)
    \/ ComputeReturns
    \/ ComputeRaises
    \/ Finalize

---------------------------------------------------------------------------
\* Compute kernels mtmfft_cF, mtmconvol_cF, wavelet_cF, superlet_cF.
\* Arrays are represented by their shapes.

Max(a, b) == IF a > b THEN a ELSE b
Min(a, b) == IF a < b THEN a ELSE b

\* A slice [start:stop] (stop = -1: open end) applied to an axis of n entries.
SliceAll == [start |-> 0, stop |-> -1]
SliceLen(sl, n) ==
    LET b == IF sl.stop < 0 THEN n ELSE Min(sl.stop, n)
        a == Min(sl.start, n)
    IN  Max(0, b - a)

\* `dat = trl_dat.T if timeAxis != 0 else trl_dat`
Dat(shape, timeAxis) == IF timeAxis # 0 THEN <<shape[2], shape[1]>> ELSE shape

\* best_match(freqs, foi, squash_duplicates=True) on a grid of nBins
\* frequencies 0, 1, ..., nBins - 1 (units of the frequency step): every foi is
\* mapped to the index of the closest grid point, duplicates are dropped.
best_match(nBins, foi) ==
    {Min(foi[i], nBins - 1) : i \in 1..Len(foi)}

\* taper_opt.get("Kmax", 1); taper_opt is {} when Kmax is 0 here.
KmaxOf(taper_opt) == IF taper_opt.Kmax = 0 THEN 1 ELSE taper_opt.Kmax

\* Backends (not part of the kernels' module): shapes of what they return.
\* mtmfft: (nTaper, nFreq, nChannels) with one row per taper window.
backend_mtmfft(datShape, nSamp, taper_opt) ==
    <<KmaxOf(taper_opt), (nSamp \div 2) + 1, datShape[2]>>

\* mtmconvol: (nTime, nTaper, nFreq, nChannels); with boundary "zeros" and
\* padding one row per window stride, else one row per full window.
backend_mtmconvol(datShape, mKw) ==
    LET step == mKw.nperseg - mKw.noverlap
        rows == IF mKw.boundary = "zeros"
                THEN (datShape[1] + step - 1) \div step
                ELSE IF datShape[1] < mKw.nperseg THEN 0
                ELSE ((datShape[1] - mKw.nperseg) \div step) + 1
    IN  <<rows, KmaxOf(mKw.taper_opt), (mKw.nperseg \div 2) + 1, datShape[2]>>

\* wavelet / superlet: (nScales, nTime, nChannels).
backend_cwt(datShape, mKw) == <<mKw.scales, datShape[1], datShape[2]>>

\* Variant of the planned taper axis that ignores keeptapers.
PlannedTapersKeepAll(nTaper, keeptapers) == Max(1, nTaper)

\* max(1, nTaper * keeptapers)
PlannedTapers(nTaper, keeptapers) == Max(1, nTaper * (IF keeptapers THEN 1 ELSE 0))

\* spec.mean(axis=1, keepdims=True) / np.nanmean(spec, axis=1, keepdims=True)
MeanTapers(shape) == <<shape[1], 1, shape[3], shape[4]>>

\* mtmfft_cF up to `if noCompute: return outShape, ...`
mtmfft_cF_plan(shape, a, mKw) ==
    LET dat == Dat(shape, a.timeAxis)
        nSamp == IF mKw.nSamples = 0 THEN dat[1] ELSE mKw.nSamples
        freq_idx == best_match((nSamp \div 2) + 1, a.foi)
    IN  <<1, PlannedTapers(KmaxOf(mKw.taper_opt), a.keeptapers),
          Cardinality(freq_idx), dat[2]>>

\* mtmfft_cF after the dry-run exit: res[np.newaxis, :, freq_idx, :]
mtmfft_cF_exec(shape, a, mKw) ==
    LET dat == Dat(shape, a.timeAxis)
        nSamp == IF mKw.nSamples = 0 THEN dat[1] ELSE mKw.nSamples
        freq_idx == best_match((nSamp \div 2) + 1, a.foi)
        resShape == backend_mtmfft(dat, nSamp, mKw.taper_opt)
        spec == <<1, resShape[1], Cardinality(freq_idx), resShape[3]>>
    IN  [raised |-> FALSE,
         shape |-> IF a.keeptapers THEN spec ELSE MeanTapers(spec)]

\* nTaper of mtmconvol_cF: `if taper_opt: nTaper = taper_opt.get("Kmax", 1)`
ConvolTapers(a, mKw) ==
    IF mKw.taper_opt.Kmax # 0 THEN mKw.taper_opt.Kmax ELSE a.nTaper

\* nTime of mtmconvol_cF
ConvolTime(dat, a, mKw) ==
    IF a.toikind = "array" THEN a.toisize
    ELSE (dat[1] + (mKw.nperseg - mKw.noverlap) - 1) \div (mKw.nperseg - mKw.noverlap)

mtmconvol_cF_plan(shape, a, mKw) ==
    LET dat == Dat(shape, a.timeAxis)
    IN  <<ConvolTime(dat, a, mKw), PlannedTapers(ConvolTapers(a, mKw), a.keeptapers),
          Len(a.foi), dat[2]>>

\* method_kwargs.update({"boundary": stftBdry, "padded": stftPad, "detrend": detrend})
ConvolKwargs(a, mKw) ==
    [mKw EXCEPT !.boundary = IF a.toikind = "array" THEN "None" ELSE "zeros",
                !.padded = IF a.toikind = "array" THEN "False" ELSE "True",
                !.detrend = IF a.polyremoval = 0 THEN "constant"
                            ELSE IF a.polyremoval = 1 THEN "linear" ELSE "False"]

mtmconvol_cF_exec(shape, a, mKw) ==
    LET dat == Dat(shape, a.timeAxis)
        nTime == ConvolTime(dat, a, mKw)
        nTaper == ConvolTapers(a, mKw)
        mKw2 == ConvolKwargs(a, mKw)
    IN  IF a.equidistant
        THEN \* ftr[postselect, :, fIdx, :]
             LET ftr == backend_mtmconvol(<<SliceLen(a.soi[1], dat[1]), dat[2]>>, mKw2)
                 fIdx == best_match(ftr[3], a.foi)
                 spec == <<SliceLen(a.postselect, ftr[1]), ftr[2], Cardinality(fIdx),
                           ftr[4]>>
             IN  [raised |-> FALSE,
                  shape |-> IF a.keeptapers THEN spec ELSE MeanTapers(spec)]
        ELSE \* one mtmfft per window; spec is allocated with the planned sizes
             LET spec == <<nTime, nTaper, Len(a.foi), dat[2]>>
                 fits(tk) ==
                    LET win == <<SliceLen(a.soi[tk], dat[1]), dat[2]>>
                        ftr == backend_mtmfft(win, win[1], mKw.taper_opt)
                        fIdx == best_match(ftr[2], a.foi)
                    IN  /\ tk <= nTime
                        /\ ftr[1] \in {1, spec[2]}
                        /\ Cardinality(fIdx) \in {1, spec[3]}
             IN  [raised |-> ~(\A tk \in 1..Len(a.soi) : fits(tk)),
                  shape |-> IF a.keeptapers THEN spec ELSE MeanTapers(spec)]

\* wavelet_cF and superlet_cF share their shape logic.
cwt_cF_plan(shape, a, mKw) ==
    LET dat == Dat(shape, a.timeAxis)
        nTime == IF a.toikind = "array" THEN a.toisize ELSE dat[1]
    IN  <<nTime, 1, mKw.scales, dat[2]>>

\* spec.transpose(1, 0, 2)[postselect, :, :], then spec[:, np.newaxis, :, :]
cwt_cF_exec(shape, a, mKw) ==
    LET dat == Dat(shape, a.timeAxis)
        spec == backend_cwt(<<SliceLen(a.preselect, dat[1]), dat[2]>>, mKw)
        moved == <<spec[2], spec[1], spec[3]>>
        picked == <<SliceLen(a.postselect, moved[1]), moved[2], moved[3]>>
    IN  [raised |-> FALSE, shape |-> <<picked[1], 1, picked[2], picked[3]>>]

cF_plan(name, shape, a, mKw) ==
    IF name = "mtmfft_cF" THEN mtmfft_cF_plan(shape, a, mKw)
    ELSE IF name = "mtmconvol_cF" THEN mtmconvol_cF_plan(shape, a, mKw)
    ELSE cwt_cF_plan(shape, a, mKw)

cF_exec(name, shape, a, mKw) ==
    IF name = "mtmfft_cF" THEN mtmfft_cF_exec(shape, a, mKw)
    ELSE IF name = "mtmconvol_cF" THEN mtmconvol_cF_exec(shape, a, mKw)
    ELSE cwt_cF_exec(shape, a, mKw)

cF_kwargs(name, a, mKw) ==
    IF name = "mtmconvol_cF" THEN ConvolKwargs(a, mKw) ELSE mKw

\* Inputs of the kernels, as the frontend hands them over: validated and
\* cross-checked (the kernels check nothing themselves).
TrialShapes ==
    {<<n, c>> : n \in TrialSamples, c \in TrialChannels}
    \cup {<<c, n>> : n \in TrialSamples, c \in TrialChannels}

NoArgs ==
    [timeAxis |-> 0, keeptapers |-> TRUE, toikind |-> "all", toisize |-> 0,
     foi |-> <<0>>, nTaper |-> 1, equidistant |-> TRUE, polyremoval |-> 0,
     soi |-> <<SliceAll>>, preselect |-> SliceAll, postselect |-> SliceAll]

NoMethodKwargs ==
    [nSamples |-> 0, taper_opt |-> [Kmax |-> 0], nperseg |-> 1, noverlap |-> 0,
     scales |-> 1, boundary |-> "absent", padded |-> "absent", detrend |-> "absent"]

TaperOpts == {[Kmax |-> K] : K \in 0..MaxTaper}

\* Samples of the trial along its time axis.
TimeLen(shape, timeAxis) == Dat(shape, timeAxis)[1]

MtmfftInputs ==
    {[kernel |-> "mtmfft_cF", shape |-> sh,
      a |-> [NoArgs EXCEPT !.timeAxis = ta, !.keeptapers = kt, !.foi = f],
      mKw |-> [NoMethodKwargs EXCEPT !.nSamples = ns, !.taper_opt = to]] :
        sh \in TrialShapes, ta \in {0, 1}, kt \in BOOLEAN, f \in Fois,
        ns \in {0, 8}, to \in TaperOpts}

\* Window start samples of a non-equidistant toi: 0, 1, 3, 6, ...
WindowStart(i) == (i * (i - 1)) \div 2

ConvolToi(n, w) ==
    LET step == w.nperseg - w.noverlap
    IN  {[NoArgs EXCEPT !.toikind = "all"], [NoArgs EXCEPT !.toikind = "number"]}
        \cup {[NoArgs EXCEPT !.toikind = "array", !.toisize = L,
                 !.soi = <<[start |-> 0, stop |-> (L - 1) * step + w.nperseg]>>] :
                 L \in {l \in 1..MaxToi : (l - 1) * step + w.nperseg <= n}}
        \cup {[NoArgs EXCEPT !.toikind = "array", !.toisize = L, !.equidistant = FALSE,
                 !.soi = [i \in 1..L |-> [start |-> WindowStart(i),
                                          stop |-> WindowStart(i) + w.nperseg]]] :
                 L \in {l \in 1..MaxToi : WindowStart(l) + w.nperseg <= n}}

GridFois(w) == {g \in Fois : \A i \in 1..Len(g) : g[i] <= w.nperseg \div 2}

MtmconvolFor(sh, ta, w) ==
    {[kernel |-> "mtmconvol_cF", shape |-> sh,
      a |-> [t EXCEPT !.timeAxis = ta, !.keeptapers = kt, !.foi = f,
                      !.nTaper = KmaxOf(to), !.polyremoval = pr],
      mKw |-> [NoMethodKwargs EXCEPT !.taper_opt = to, !.nperseg = w.nperseg,
                                     !.noverlap = w.noverlap]] :
        kt \in BOOLEAN, to \in TaperOpts, pr \in {0, 2}, f \in GridFois(w),
        t \in ConvolToi(TimeLen(sh, ta), w)}

MtmconvolInputs ==
    UNION {MtmconvolFor(sh, ta, w) :
              sh \in TrialShapes, ta \in {0, 1}, w \in WindowKwargs}

CwtToi(n) ==
    {[NoArgs EXCEPT !.toikind = "all"]}
    \cup {[NoArgs EXCEPT !.toikind = "array", !.toisize = L,
             !.preselect = [start |-> 1, stop |-> L + 2],
             !.postselect = [start |-> 1, stop |-> L + 1]] :
             L \in {l \in 1..MaxToi : l + 2 <= n}}

CwtFor(sh, ta) ==
    {[kernel |-> name, shape |-> sh, a |-> [t EXCEPT !.timeAxis = ta],
      mKw |-> [NoMethodKwargs EXCEPT !.scales = sc]] :
        name \in {"wavelet_cF", "superlet_cF"}, sc \in 1..MaxScales,
        t \in CwtToi(TimeLen(sh, ta))}

CwtInputs == UNION {CwtFor(sh, ta) : sh \in TrialShapes, ta \in {0, 1}}

KernelInputs == MtmfftInputs \cup MtmconvolInputs \cup CwtInputs

KIdle ==
    /\ k_pc = "idle"
    /\ kernel = "none"
    /\ trl_shape = <<>>
    /\ kw = NoArgs
    /\ method_kwargs = NoMethodKwargs
    /\ planShape = <<>>
    /\ execShape = <<>>

KInit ==
    /\ k_pc = "ready"
    /\ \E in \in KernelInputs :
          /\ kernel = in.kernel
          /\ trl_shape = in.shape
          /\ kw = in.a
          /\ method_kwargs = in.mKw
    /\ planShape = <<>>
    /\ execShape = <<>>

\* The dry run: computeFunction(FauxTrial, ..., noCompute=True).
PlanKernel ==
    /\ k_pc = "ready"
    /\ planShape' = cF_plan(kernel, trl_shape, kw, method_kwargs)
    /\ k_pc' = "planned"
    /\ UNCHANGED <<kernel, trl_shape, kw, method_kwargs, execShape>>
    /\ KFrame

\* The real call: computeFunction(trial, ..., noCompute=False).
ExecuteKernel ==
    /\ k_pc = "planned"
    /\ LET r == cF_exec(kernel, trl_shape, kw, method_kwargs)
       IN  /\ k_pc' = IF r.raised THEN "raised" ELSE "executed"
           /\ execShape' = IF r.raised THEN <<>> ELSE r.shape
    /\ method_kwargs' = cF_kwargs(kernel, kw, method_kwargs)
    /\ UNCHANGED <<kernel, trl_shape, kw, planShape>>
    /\ KFrame

KNext ==
    \/ PlanKernel
    \/ ExecuteKernel

---------------------------------------------------------------------------
\* Metadata bundles: dictionaries {'attrs': {...}, 'dsets': {...}}; a
\* dictionary is a function from its keys to its values.
None == [none |-> TRUE]
EmptyDict == <<>>
HasGroup(e) == "attrs" \in DOMAIN e

\* Variant of the dictionary join that keeps only the later dictionary.
Merge2KeepLast(a, b) == b

\* {**a, **b}: the keys of both, b's value where both have the key.
Merge2(a, b) ==
    [k \in (DOMAIN a) \cup (DOMAIN b) |-> IF k \in DOMAIN b THEN b[k] ELSE a[k]]

extract_md_group(md) == [attrs |-> md.attrs, dsets |-> md.dsets]

\* `for md in md_list:` of _merge_md_list, from entry i on.
RECURSIVE MergeLoop(_, _, _)
MergeLoop(list, i, acc) ==
    IF i > Len(list) THEN acc
    ELSE MergeLoop(list, i + 1,
                   [attrs |-> Merge2(acc.attrs, list[i].attrs),
                    dsets |-> Merge2(acc.dsets, list[i].dsets)])

_merge_md_list(list) ==
    IF list = <<>> THEN None
    ELSE MergeLoop(list, 1, [attrs |-> EmptyDict, dsets |-> EmptyDict])

\* Variant of the list that stops at the first source without a group.
RECURSIVE MetadataListUntilGap(_)
MetadataListUntilGap(files) ==
    IF files = <<>> \/ ~HasGroup(Head(files)) THEN <<>>
    ELSE <<extract_md_group(Head(files))>> \o MetadataListUntilGap(Tail(files))

\* The metadata_list of metadata_from_h5py_file: one entry per virtual source
\* that has a 'metadata' group.
RECURSIVE MetadataList(_)
MetadataList(files) ==
    IF files = <<>> THEN <<>>
    ELSE (IF HasGroup(Head(files)) THEN <<extract_md_group(Head(files))>> ELSE <<>>)
         \o MetadataList(Tail(files))

\* `if 'data' in h5f: ... else: raise SPYValueError(...)`: only the container
\* file is tested; 'data' in a virtual source's file only decides a print.
h5py_raises(has) == ~has

\* metadata_from_h5py_file when 'data' is in the container file.
metadata_from_h5py_file(virtual, files) ==
    IF virtual THEN _merge_md_list(MetadataList(files))
    ELSE IF HasGroup(files[1]) THEN extract_md_group(files[1])
    ELSE None

\* Labels of the attributes one cF call stores: name, trial and call index.
encode_unique_md_label(name, trial_idx, call_idx) == <<name, trial_idx, call_idx>>
decode_unique_md_label(l) == [label |-> l[1], trial_idx |-> l[2], call_idx |-> l[3]]

\* Values of FOOOF attributes: a 2D array (val: its rows) or a Python list
\* of 2D arrays (val: the arrays); n_peaks is a 1D array of counts.
Array(rows) == [islist |-> FALSE, val |-> rows]
List(arrays) == [islist |-> TRUE, val |-> arrays]

\* np.vstack(list of 2D arrays)
RECURSIVE VStack(_)
VStack(arrays) == IF arrays = <<>> THEN <<>> ELSE Head(arrays) \o VStack(Tail(arrays))

pack_singletrial_metadata_fooof_into_hdf5(d) ==
    [n_peaks |-> Array(d.n_peaks),
     gaussian_params |-> Array(VStack(d.gaussian_params)),
     peak_params |-> Array(VStack(d.peak_params))]

\* What the backend returns for trial t when it fits counts[ch] peaks in
\* channel ch: per channel one row per peak, every row a distinct value.
FooofRows(tag, t, counts) ==
    [ch \in 1..Len(counts) |-> [j \in 1..counts[ch] |-> <<tag, t, ch, j>>]]

FooofDetails(t, counts) ==
    [n_peaks |-> counts,
     gaussian_params |-> FooofRows("g", t, counts),
     peak_params |-> FooofRows("p", t, counts)]

\* The 'metadata' attributes written for the second return value of the cF
\* call of trial t (call index 0).
StoredAttrs(t, packed) ==
    [l \in {encode_unique_md_label(n, t, 0) :
               n \in {"n_peaks", "gaussian_params", "peak_params"}} |->
        IF l[1] = "n_peaks" THEN packed.n_peaks
        ELSE IF l[1] = "gaussian_params" THEN packed.gaussian_params
        ELSE packed.peak_params]

\* arr[start:stop, :]
RowSlice(arr, start, stop) == SubSeq(arr, start + 1, Min(stop, Len(arr)))

\* `for trial_idx in range(len(n_peaks)):` of the unpacking, from entry i on;
\* the loop body does not assign start_idx.
RECURSIVE UnpackLoop(_, _, _, _)
UnpackLoop(in, n_peaks, i, start_idx) ==
    IF i > Len(n_peaks) THEN <<>>
    ELSE LET end_idx == start_idx + n_peaks[i]
         IN  <<RowSlice(in, start_idx, end_idx)>>
             \o UnpackLoop(in, n_peaks, i + 1, start_idx)

\* The body of `if label == "n_peaks":` for one n_peaks attribute.
UnpackOne(attrs, unique_attr_label) ==
    LET d == decode_unique_md_label(unique_attr_label)
        n_peaks == attrs[unique_attr_label].val
        gLabel == encode_unique_md_label("gaussian_params", d.trial_idx, d.call_idx)
        pLabel == encode_unique_md_label("peak_params", d.trial_idx, d.call_idx)
        gaussian_params_out == List(UnpackLoop(attrs[gLabel].val, n_peaks, 1, 0))
        peak_params_out == List(UnpackLoop(attrs[pLabel].val, n_peaks, 1, 0))
        first == [attrs EXCEPT ![gLabel] = gaussian_params_out]
    IN  [first EXCEPT ![gLabel] = peak_params_out]

RECURSIVE UnpackAll(_, _)
UnpackAll(attrs, labels) ==
    IF labels = {} THEN attrs
    ELSE LET l == CHOOSE x \in labels : TRUE
         IN  UnpackAll(UnpackOne(attrs, l), labels \ {l})

unpack_alltrials_metadata_fooof_from_hdf5(md) ==
    [md EXCEPT !.attrs =
        UnpackAll(@, {l \in DOMAIN @ : decode_unique_md_label(l).label = "n_peaks"})]

\* Bundles handed to _merge_md_list: attributes "a" and "b", dataset "d".
AttrDicts ==
    {f \in UNION {[S -> {1, 2}] : S \in SUBSET {"a", "b"}} :
        "b" \in DOMAIN f => f["b"] = 1}
DsetDicts == UNION {[S -> {1}] : S \in SUBSET {"d"}}
Bundles == {[attrs |-> a, dsets |-> d] : a \in AttrDicts, d \in DsetDicts}
MdLists == UNION {[1..n -> Bundles] : n \in 0..MaxBundles}

\* Peak counts per channel of one trial.
PeakCounts == UNION {[1..c -> 0..MaxPeaks] : c \in TrialChannels}

MIdle ==
    /\ m_pc = "idle"
    /\ details = <<>>
    /\ is_virtual = FALSE
    /\ called = {}
    /\ extents = <<>>
    /\ md_list = <<>>
    /\ metadata = None
    /\ regrouped = None
    /\ has_data = TRUE
    /\ part_data = <<>>

\* ---- _merge_md_list on a list of bundles ---------------------------------
MergeInit ==
    /\ m_pc = "listed"
    /\ md_list \in MdLists
    /\ details = <<>>
    /\ is_virtual = TRUE
    /\ called = {}
    /\ extents = <<>>
    /\ metadata = None
    /\ regrouped = None
    /\ has_data = TRUE
    /\ part_data = <<>>

MergeMdList ==
    /\ m_pc = "listed"
    /\ metadata' = _merge_md_list(md_list)
    /\ m_pc' = "merged"
    /\ UNCHANGED <<details, is_virtual, called, extents, md_list, regrouped, has_data,
                   part_data>>
    /\ MFrame

\* The same bundles in the order perm, the first k of them merged first.
Regrouped(list, perm, k) ==
    LET p == [i \in 1..Len(list) |-> list[perm[i]]]
    IN  _merge_md_list(<<_merge_md_list(SubSeq(p, 1, k))>> \o SubSeq(p, k + 1, Len(p)))

MergeRegrouped ==
    /\ m_pc = "merged"
    /\ Len(md_list) >= 1
    /\ \E perm \in Permutations(1..Len(md_list)), k \in 1..Len(md_list) :
          regrouped' = Regrouped(md_list, perm, k)
    /\ m_pc' = "regrouped"
    /\ UNCHANGED <<details, is_virtual, called, extents, md_list, metadata, has_data,
                   part_data>>
    /\ MFrame

MergeNext ==
    \/ MergeMdList
    \/ MergeRegrouped

\* ---- FOOOF: per-trial details into the container and back ----------------
FooofInit ==
    /\ m_pc = "computing"
    /\ \E n \in FooofTrials : \E counts \in [1..n -> PeakCounts] :
          /\ details = [t \in 1..n |-> FooofDetails(t, counts[t])]
          /\ \E v \in BOOLEAN :
                /\ is_virtual = v
                /\ extents = [e \in 1..(IF v THEN n ELSE 1) |-> None]
                /\ part_data = [e \in 1..(IF v THEN n ELSE 1) |-> TRUE]
    /\ has_data = TRUE
    /\ called = {}
    /\ md_list = <<>>
    /\ metadata = None
    /\ regrouped = None

\* fooofspy_cF in execution mode for trial t; its details, packed, are stored
\* in the 'metadata' group of the file trial t is written to (the group is
\* created with the first details stored in the file).
FooofCall(t) ==
    /\ m_pc = "computing"
    /\ t \in (DOMAIN details) \ called
    /\ LET packed == pack_singletrial_metadata_fooof_into_hdf5(details[t])
           e == IF is_virtual THEN t ELSE 1
           old == IF HasGroup(extents[e]) THEN extents[e]
                  ELSE [attrs |-> EmptyDict, dsets |-> EmptyDict]
       IN  extents' = [extents EXCEPT
                          ![e] = [old EXCEPT
                                     !.attrs = Merge2(@, StoredAttrs(t, packed))]]
    /\ called' = called \cup {t}
    /\ UNCHANGED <<m_pc, details, is_virtual, md_list, metadata, regrouped, has_data,
                   part_data>>
    /\ MFrame

\* FooofSpy.process_metadata, after every trial was computed.
ProcessMetadata ==
    /\ m_pc = "computing"
    /\ called = DOMAIN details
    /\ LET md == IF h5py_raises(has_data) THEN None
                 ELSE metadata_from_h5py_file(is_virtual, extents)
       IN  /\ md_list' = IF is_virtual THEN MetadataList(extents) ELSE <<>>
           /\ IF HasGroup(md)
              THEN /\ metadata' = unpack_alltrials_metadata_fooof_from_hdf5(md)
                   /\ m_pc' = "attached"
              ELSE /\ metadata' = md
                   /\ m_pc' = "raised"
    /\ UNCHANGED <<details, is_virtual, called, extents, regrouped, has_data, part_data>>
    /\ MFrame

FooofNext ==
    \/ \E t \in DOMAIN details : FooofCall(t)
    \/ ProcessMetadata

\* ---- metadata_from_h5py_file on a stored container ------------------------
\* What one file may hold as its 'metadata' group: nothing, or a few entries.
ContainerGroups ==
    {None,
     [attrs |-> [k \in {"a"} |-> 1], dsets |-> EmptyDict],
     [attrs |-> [k \in {"a"} |-> 2], dsets |-> EmptyDict],
     [attrs |-> [k \in {"b"} |-> 1], dsets |-> EmptyDict],
     [attrs |-> EmptyDict, dsets |-> [k \in {"d"} |-> 1]]}

ContainerInit ==
    /\ m_pc = "stored"
    /\ \/ /\ is_virtual = TRUE
          /\ has_data = TRUE
          /\ \E n \in 0..MaxBundles :
                /\ extents \in [1..n -> ContainerGroups]
                /\ part_data \in [1..n -> BOOLEAN]
       \/ /\ is_virtual = FALSE
          /\ has_data \in BOOLEAN
          /\ extents \in [1..1 -> ContainerGroups]
          /\ part_data = <<has_data>>
    /\ details = <<>>
    /\ called = {}
    /\ md_list = <<>>
    /\ metadata = None
    /\ regrouped = None

\* metadata_from_h5py_file(out.filename)
ReadMetadata ==
    /\ m_pc = "stored"
    /\ IF h5py_raises(has_data)
       THEN /\ m_pc' = "raised"
            /\ UNCHANGED <<md_list, metadata>>
       ELSE /\ m_pc' = "read"
            /\ md_list' = IF is_virtual THEN MetadataList(extents) ELSE <<>>
            /\ metadata' = metadata_from_h5py_file(is_virtual, extents)
    /\ UNCHANGED <<details, is_virtual, called, extents, regrouped, has_data, part_data>>
    /\ MFrame

ContainerNext == ReadMetadata

---------------------------------------------------------------------------
\* check_workers_available(client, timeout)

RECURSIVE Pow(_, _)
Pow(b, e) == IF e = 0 THEN 1 ELSE b * Pow(b, e - 1)

\* int(totalWorkers**0.7): the largest m with m^10 <= n^7.
IntPow07(n) ==
    CHOOSE m \in 0..n : Pow(m, 10) <= Pow(n, 7) /\ (m = n \/ Pow(m + 1, 10) > Pow(n, 7))

WIdle ==
    /\ w_pc = "idle"
    /\ totalWorkers = 0
    /\ minWorkers = 0
    /\ alive = 0
    /\ timeout = 0
    /\ elapsed = 0
    /\ w_log = <<>>

WInit ==
    /\ w_pc = "called"
    /\ totalWorkers \in 0..MaxWorkers
    /\ alive \in 0..totalWorkers
    /\ timeout \in 1..MaxTimeout
    /\ minWorkers = 0
    /\ elapsed = 0
    /\ w_log = <<>>

\* Up to the call of client.wait_for_workers(minWorkers, timeout=timeout).
CheckStart ==
    /\ w_pc = "called"
    /\ minWorkers' = IntPow07(totalWorkers)
    /\ w_log' = IF alive < IntPow07(totalWorkers) THEN Append(w_log, "waiting") ELSE w_log
    /\ w_pc' = "waiting"
    /\ UNCHANGED <<totalWorkers, alive, timeout, elapsed>>
    /\ WFrame

\* A requested worker connects to the scheduler.
WorkerJoins ==
    /\ w_pc \in {"called", "waiting"}
    /\ alive < totalWorkers
    /\ alive' = alive + 1
    /\ UNCHANGED <<w_pc, totalWorkers, minWorkers, timeout, elapsed, w_log>>
    /\ WFrame

\* Time passes inside wait_for_workers.
Tick ==
    /\ w_pc = "waiting"
    /\ alive < minWorkers
    /\ elapsed < timeout
    /\ elapsed' = elapsed + 1
    /\ UNCHANGED <<w_pc, totalWorkers, minWorkers, alive, timeout, w_log>>
    /\ WFrame

\* wait_for_workers returns: the quorum is connected.
WaitReturns ==
    /\ w_pc = "waiting"
    /\ alive >= minWorkers
    /\ w_pc' = "waited"
    /\ UNCHANGED <<totalWorkers, minWorkers, alive, timeout, elapsed, w_log>>
    /\ WFrame

\* wait_for_workers raises TimeoutError: the timeout passed without the
\* quorum; check_workers_available has no handler, so it raises too.
WaitRaises ==
    /\ w_pc = "waiting"
    /\ alive < minWorkers
    /\ elapsed = timeout
    /\ w_pc' = "raised"
    /\ UNCHANGED <<totalWorkers, minWorkers, alive, timeout, elapsed, w_log>>
    /\ WFrame

\* After the wait: the report if not all workers are there, and the return.
CheckEnd ==
    /\ w_pc = "waited"
    /\ w_log' = IF alive # totalWorkers THEN Append(w_log, "starting") ELSE w_log
    /\ w_pc' = "returned"
    /\ UNCHANGED <<totalWorkers, minWorkers, alive, timeout, elapsed>>
    /\ WFrame

WNext ==
    \/ CheckStart
    \/ WorkerJoins
    \/ Tick
    \/ WaitReturns
    \/ WaitRaises
    \/ CheckEnd

---------------------------------------------------------------------------
\* fooofspy_cF, the compute kernel of the FOOOF routine.

\* Trials handed to fooofspy_cF: spectra with axes (time, taper, freq, channel).
FooofShapes ==
    {<<t, tp, f, c>> : t \in 1..2, tp \in 1..MaxTaper, f \in 1..MaxFreqs,
                       c \in TrialChannels}

\* A check of the axis order placed after the dry-run exit.
fooofspy_cF_raisesInCompute(ta, noCompute) == ta # 0 /\ ~noCompute

\* `if timeAxis != 0: raise SPYValueError(...)`, the first statement.
fooofspy_cF_raises(ta, noCompute) == ta # 0

\* `outShape = trl_dat.shape`
fooofspy_cF_outShape(shape) == shape

\* The backend fits every channel of a (freq, channel) spectrum and returns
\* an array of the shape of its input.
backend_fooofspy(datShape) == datShape

\* `fooofspy(trl_dat[0, 0, :, :], ...)`, then `res[np.newaxis, np.newaxis, :, :]`
fooofspy_cF_res(shape) ==
    LET spec == backend_fooofspy(<<shape[3], shape[4]>>)
    IN  <<1, 1, spec[1], spec[2]>>

CfIdle ==
    /\ cf_pc = "idle"
    /\ cf_shape = <<>>
    /\ cf_timeAxis = 0
    /\ cf_noCompute = FALSE
    /\ cf_outShape = <<>>
    /\ cf_res = <<>>
    /\ cf_backend = FALSE

CfInit ==
    /\ cf_pc = "ready"
    /\ cf_shape \in FooofShapes
    /\ cf_timeAxis \in {0, 1}
    /\ cf_noCompute = FALSE
    /\ cf_outShape = <<>>
    /\ cf_res = <<>>
    /\ cf_backend = FALSE

\* fooofspy_cF(FauxTrial, ..., noCompute=True)
PlanFooof ==
    /\ cf_pc = "ready"
    /\ cf_noCompute' = TRUE
    /\ IF fooofspy_cF_raises(cf_timeAxis, TRUE)
       THEN /\ cf_pc' = "raised"
            /\ cf_outShape' = cf_outShape
       ELSE /\ cf_pc' = "planned"
            /\ cf_outShape' = fooofspy_cF_outShape(cf_shape)
    /\ UNCHANGED <<cf_shape, cf_timeAxis, cf_res, cf_backend>>
    /\ CfFrame

\* fooofspy_cF(trial, ..., noCompute=False), after planning or on its own.
ComputeFooof ==
    /\ cf_pc \in {"ready", "planned"}
    /\ cf_noCompute' = FALSE
    /\ IF fooofspy_cF_raises(cf_timeAxis, FALSE)
       THEN /\ cf_pc' = "raised"
            /\ UNCHANGED <<cf_res, cf_backend>>
       ELSE /\ cf_pc' = "computed"
            /\ cf_backend' = TRUE
            /\ cf_res' = fooofspy_cF_res(cf_shape)
    /\ UNCHANGED <<cf_shape, cf_timeAxis, cf_outShape>>
    /\ CfFrame

CfNext ==
    \/ PlanFooof
    \/ ComputeFooof

---------------------------------------------------------------------------
\* Logging: the logger "syncopy" appends to syncopy.log every entry whose
\* level is not below the threshold SPYLOGLEVEL (default IMPORTANT).

LogLevels == {"DEBUG", "INFO", "IMPORTANT", "WARNING", "ERROR", "CRITICAL"}

\* A numbering that puts IMPORTANT above WARNING.
LevelNoImportantHigh(l) ==
    CASE l = "DEBUG" -> 10
      [] l = "INFO" -> 20
      [] l = "WARNING" -> 30
      [] l = "IMPORTANT" -> 35
      [] l = "ERROR" -> 40
      [] l = "CRITICAL" -> 50

\* Numeric levels of the logging module; IMPORTANT is registered between
\* INFO and WARNING.
LevelNo(l) ==
    CASE l = "DEBUG" -> 10
      [] l = "INFO" -> 20
      [] l = "IMPORTANT" -> 25
      [] l = "WARNING" -> 30
      [] l = "ERROR" -> 40
      [] l = "CRITICAL" -> 50

\* Logger.isEnabledFor / Handler level filter.
IsEnabledFor(l) == LevelNo(l) >= LevelNo(loglevel)

LgIdle ==
    /\ lg_pc = "idle"
    /\ loglevel = "IMPORTANT"
    /\ logfile = 0
    /\ lg_level = "none"
    /\ lg_before = 0

\* The file is appended to from run to run, so it need not be empty.
LgInit ==
    /\ lg_pc = "ready"
    /\ loglevel \in LogLevels
    /\ logfile \in 0..1
    /\ lg_level = "none"
    /\ lg_before = logfile

\* logger.<level>(msg) or SPYLog(msg, loglevel=level), msg of n lines.
EmitLog(level, n) ==
    /\ lg_pc = "ready"
    /\ logfile + n <= MaxLogLines
    /\ lg_level' = level
    /\ lg_before' = logfile
    /\ logfile' = IF IsEnabledFor(level) THEN logfile + n ELSE logfile
    /\ UNCHANGED <<lg_pc, loglevel>>
    /\ LgFrame

LgNext ==
    \E level \in LogLevels, n \in 1..MaxMsgLines : EmitLog(level, n)

---------------------------------------------------------------------------
\* Specifications: one per part; the other parts stay idle.

Init ==
    /\ ExInit
    /\ TdIdle
    /\ KIdle
    /\ MIdle
    /\ WIdle
    /\ CfIdle
    /\ LgIdle

Spec == Init /\ [][ExNext]_vars

InitTrialdef ==
    /\ TdInit
    /\ ExIdle
    /\ KIdle
    /\ MIdle
    /\ WIdle
    /\ CfIdle
    /\ LgIdle

SpecTrialdef == InitTrialdef /\ [][TdNext]_vars

InitKernel ==
    /\ KInit
    /\ TdIdle
    /\ ExIdle
    /\ MIdle
    /\ WIdle
    /\ CfIdle
    /\ LgIdle

SpecKernel == InitKernel /\ [][KNext]_vars

InitMerge ==
    /\ MergeInit
    /\ TdIdle
    /\ ExIdle
    /\ KIdle
    /\ WIdle
    /\ CfIdle
    /\ LgIdle

SpecMerge == InitMerge /\ [][MergeNext]_vars

InitFooof ==
    /\ FooofInit
    /\ TdIdle
    /\ ExIdle
    /\ KIdle
    /\ WIdle
    /\ CfIdle
    /\ LgIdle

SpecFooof == InitFooof /\ [][FooofNext]_vars

InitContainer ==
    /\ ContainerInit
    /\ TdIdle
    /\ ExIdle
    /\ KIdle
    /\ WIdle
    /\ CfIdle
    /\ LgIdle

SpecContainer == InitContainer /\ [][ContainerNext]_vars

InitWorkers ==
    /\ WInit
    /\ TdIdle
    /\ ExIdle
    /\ KIdle
    /\ MIdle
    /\ CfIdle
    /\ LgIdle

SpecWorkers == InitWorkers /\ [][WNext]_vars

InitFooofKernel ==
    /\ CfInit
    /\ TdIdle
    /\ ExIdle
    /\ KIdle
    /\ MIdle
    /\ WIdle
    /\ LgIdle

SpecFooofKernel == InitFooofKernel /\ [][CfNext]_vars

InitLog ==
    /\ LgInit
    /\ TdIdle
    /\ ExIdle
    /\ KIdle
    /\ MIdle
    /\ WIdle
    /\ CfIdle

SpecLog == InitLog /\ [][LgNext]_vars

---------------------------------------------------------------------------
\* Properties of the compute kernels (checked under SpecKernel).

---------------------------------------------------------------------------
\* Properties of the metadata bundles (checked under SpecFooof and SpecMerge).

\* C5: packing the per-entry gaussian_params and peak_params and unpacking
\* them with the n_peaks counts reproduces the original arrays, entry by
\* entry, for both quantities.
C5_PackUnpackRoundTrip ==
    m_pc = "attached" =>
        \A t \in DOMAIN details :
            LET g == metadata.attrs[encode_unique_md_label("gaussian_params", t, 0)]
                p == metadata.attrs[encode_unique_md_label("peak_params", t, 0)]
            IN  /\ g.islist
                /\ g.val = details[t].gaussian_params
                /\ p.islist
                /\ p.val = details[t].peak_params

\* The keys of the bundles of a list are pairwise disjoint.
DisjointKeys(list) ==
    \A i, j \in 1..Len(list) :
        i # j => /\ (DOMAIN list[i].attrs) \cap (DOMAIN list[j].attrs) = {}
                 /\ (DOMAIN list[i].dsets) \cap (DOMAIN list[j].dsets) = {}

\* d holds exactly the keys of the dictionaries ds, each with its value.
IsUnion(d, ds) ==
    /\ DOMAIN d = UNION {DOMAIN ds[i] : i \in 1..Len(ds)}
    /\ \A i \in 1..Len(ds) : \A key \in DOMAIN ds[i] : d[key] = ds[i][key]

\* C6: for bundles with pairwise disjoint keys _merge_md_list returns the
\* union of their attrs and of their dsets, every key with its original
\* value, and merging them in another order and grouping gives the same.
C6_MergeDisjointUnion ==
    (Len(md_list) >= 1 /\ DisjointKeys(md_list)) =>
        /\ m_pc \in {"merged", "regrouped"} =>
              /\ IsUnion(metadata.attrs, [i \in 1..Len(md_list) |-> md_list[i].attrs])
              /\ IsUnion(metadata.dsets, [i \in 1..Len(md_list) |-> md_list[i].dsets])
        /\ m_pc = "regrouped" => regrouped = metadata

C6_Witness ==
    /\ m_pc = "regrouped"
    /\ Len(md_list) = 3
    /\ DisjointKeys(md_list)
    /\ \A i \in 1..3 : (DOMAIN md_list[i].attrs) \cup (DOMAIN md_list[i].dsets) # {}
    /\ DOMAIN metadata.attrs = {"a", "b"}
    /\ DOMAIN metadata.dsets = {"d"}

---------------------------------------------------------------------------
\* Properties of the mtmfft executor (checked under Spec).

Allocated == res # <<>>
Started(k) == task[k + 1].st # "pending"
Own(k, i) == k * nFreq < i /\ i <= (k + 1) * nFreq

\* C7: the result of segment k is written only to [k*nFreq, (k+1)*nFreq) of
\* the container allocated before any task starts; these ranges are disjoint
\* and cover the container exactly, and under every interleaving of the
\* writers no element is written by two tasks (nor twice).
C7_DisjointSlabs ==
    /\ \A k \in Segs : Started(k) => Allocated
    /\ Allocated =>
          /\ Len(res) = nFreq * NSegs
          /\ \A i \in 1..Len(res) : Cardinality({k \in Segs : Own(k, i)}) = 1
          /\ \A i \in 1..Len(res) :
                /\ Len(writers[i]) <= 1
                /\ \A n \in 1..Len(writers[i]) : Own(writers[i][n], i)
                /\ res[i] # Zero => Own(res[i][1], i)

C7_Witness ==
    /\ pc = "compute"
    /\ NSegs = 3
    /\ task[1].st = "writing"
    /\ task[3].st = "writing"
    /\ task[2].st = "written"
    /\ writers[3] = <<1>>

HoldsOwnResult(k) == \A j \in 1..nFreq : res[k * nFreq + j] = <<k, j>>

\* Every task has settled: mtmfft has returned or raised and no writer runs.
Settled ==
    /\ pc \in {"done", "raised"}
    /\ \A k \in Segs : task[k + 1].st # "writing"

\* C8: if the kernel of one segment raises, then once all tasks have settled
\* the slab of every other segment holds that segment's own result.
C8_FailureIsolated ==
    (Settled /\ \E f \in Segs : task[f + 1].st = "failed") =>
        \A k \in Segs : ~KernelRaises(k) => HoldsOwnResult(k)

\* C9: the job is reported failed only after all tasks have settled (each
\* has written its slab or failed), and the report names exactly the failing
\* segments.
C9_FailureReportedAtBarrier ==
    (pc = "raised") =>
        /\ \A k \in Segs : task[k + 1].st \in {"written", "failed"}
        /\ exc.trials = {k \in Segs : KernelRaises(k)}

---------------------------------------------------------------------------
\* Properties of _make_trialdef (checked under SpecTrialdef).

NTrials == Len(td_orig)
OrigLen(k) == td_orig[k].stop - td_orig[k].start

RECURSIVE SumLen(_)
SumLen(k) == IF k = 0 THEN 0 ELSE SumLen(k - 1) + OrigLen(k)

TdCalled == routine = "MultiTaperFFTConvol" /\ td_pc \in {"returned", "raised"}

\* C2: with an explicit toi array of length L (every L >= 1) and T trials the
\* routine returns a table whose row k is [k*L, (k+1)*L], so that the last
\* stop is L*T.  (Rows are numbered from 1 in the model.)
C2_ToiArrayRows ==
    (TdCalled /\ cfg.toikind = "array") =>
        /\ td_pc = "returned"
        /\ Len(td_ret) = NTrials
        /\ \A k \in 1..NTrials :
              /\ td_ret[k].start = (k - 1) * Len(cfg.toi)
              /\ td_ret[k].stop = k * Len(cfg.toi)
        /\ td_ret[NTrials].stop = Len(cfg.toi) * NTrials

\* C3: with toi = "all" the returned boundaries are the cumulative sums of the
\* original trial lengths, row 0 included (its start is 0), and the sampling
\* rate is returned unchanged.
C3_ToiAllCumulative ==
    (TdCalled /\ cfg.toikind = "all") =>
        /\ td_pc = "returned"
        /\ \A k \in 1..NTrials :
              /\ td_ret[k].start = SumLen(k - 1)
              /\ td_ret[k].stop = SumLen(k)
        /\ samplerate = td_srate0

\* C4: with a non-uniformly spaced toi array the routine warns, returns the
\* sampling rate 1.0 and a table whose trigger offsets are all 0.
NonUniformToi ==
    /\ cfg.toikind = "array"
    /\ \E i \in 2..(Len(cfg.toi) - 1) :
          cfg.toi[i + 1] - cfg.toi[i] # cfg.toi[2] - cfg.toi[1]

C4_NonUniformZeroOffsets ==
    (TdCalled /\ NonUniformToi) =>
        /\ td_pc = "returned"
        /\ td_warned
        /\ samplerate = <<1, 1>>
        /\ \A k \in 1..NTrials : td_ret[k].t0 = <<0, 1>>

\* C10: with a percentage toi, trial k gets ceil((e_k - s_k) / (nperseg -
\* noverlap)) rows, i.e. the least n with len_k <= n * winSize, and the
\* boundaries are the running sums of these counts: start_0 = 0 and
\* start_k = stop_(k-1).
C10_ToiNumberRowCounts ==
    (TdCalled /\ cfg.toikind = "number") =>
        LET w == cfg.method_kwargs.nperseg - cfg.method_kwargs.noverlap
        IN  /\ td_pc = "returned"
            /\ td_ret[1].start = 0
            /\ \A k \in 1..NTrials :
                  LET n == td_ret[k].stop - td_ret[k].start
                  IN  /\ (n - 1) * w < OrigLen(k)
                      /\ OrigLen(k) <= n * w
                      /\ k > 1 => td_ret[k].start = td_ret[k - 1].stop

C10_Witness ==
    /\ td_pc = "returned"
    /\ cfg.toikind = "number"
    /\ cfg.method_kwargs.nperseg - cfg.method_kwargs.noverlap = 2
    /\ NTrials = 3
    /\ OrigLen(1) = 3 /\ OrigLen(2) = 1 /\ OrigLen(3) = 2
    /\ td_ret[3].stop = 4


\* The toi array has at least two points, all spaced by the same D.
UniformToi ==
    /\ cfg.toikind = "array"
    /\ Len(cfg.toi) >= 2
    /\ \A i \in 1..(Len(cfg.toi) - 1) :
          cfg.toi[i + 1] - cfg.toi[i] = cfg.toi[2] - cfg.toi[1]

\* C11: with an explicit toi array of uniform spacing D the routine returns
\* the sampling rate 1/D and emits no warning.
C11_UniformToiSamplerate ==
    (TdCalled /\ UniformToi) =>
        /\ td_pc = "returned"
        /\ samplerate = Rat(1, cfg.toi[2] - cfg.toi[1])
        /\ ~td_warned

C11_Witness ==
    /\ td_pc = "returned"
    /\ UniformToi
    /\ Len(cfg.toi) = 3
    /\ cfg.toi[2] - cfg.toi[1] = 2
    /\ td_srate0 = <<1000, 1>>
    /\ samplerate = <<1, 2>>
    /\ ~td_warned


\* C12: when trial averaging is requested, process_metadata attaches a table
\* of exactly one row: the first reconciled row, with the trigger offset
\* replaced by the mean of the (reconciled) trigger offsets of all trials.
C12_AveragedSingleRow ==
    (TdCalled /\ ~keeptrials) =>
        /\ td_pc = "returned"
        /\ Len(out_trl) = 1
        /\ out_trl[1].start = td_ret[1].start
        /\ out_trl[1].stop = td_ret[1].stop
        /\ out_trl[1].info = td_ret[1].info
        /\ out_trl[1].t0 = RatDivInt(SumT0(td_ret, Len(td_ret)), Len(td_ret))


\* C13: every row of the table _make_trialdef returns satisfies
\* start <= stop, under each toi policy (the source rows satisfy it).
C13_StartNotAfterStop ==
    (TdCalled /\ td_pc = "returned") =>
        \A k \in 1..Len(td_ret) : td_ret[k].start <= td_ret[k].stop

\* C14: with trials kept, reconciliation changes only columns 0 to 2: the
\* table has as many rows as the source table and every row keeps its info
\* columns; this holds of the table rewritten in place and of the one
\* attached to the output.
C14_InfoColumnsKept ==
    /\ td_pc \in {"returned", "raised"} =>
          /\ Len(trialdefinition) = NTrials
          /\ \A k \in 1..NTrials : trialdefinition[k].info = td_orig[k].info
    /\ (td_pc = "returned" /\ keeptrials) =>
          /\ Len(out_trl) = NTrials
          /\ \A k \in 1..NTrials : out_trl[k].info = td_orig[k].info

C14_Witness ==
    /\ td_pc = "returned"
    /\ routine = "MultiTaperFFT"
    /\ keeptrials
    /\ ~selected
    /\ NTrials = 3
    /\ td_orig[1].start = 2
    /\ out_trl[3].start = 2 /\ out_trl[3].stop = 3
    /\ out_trl[3].info = td_orig[3].info


---------------------------------------------------------------------------
\* Properties of metadata_from_h5py_file (checked under SpecContainer).

\* The extents that carry a 'metadata' group.
Carriers == {i \in 1..Len(extents) : HasGroup(extents[i])}

\* d maps every key of the carriers' dictionaries (part: "attrs" or "dsets")
\* to the value of the last carrier that has the key.
MergedOver(d, part) ==
    /\ DOMAIN d = UNION {DOMAIN extents[i][part] : i \in Carriers}
    /\ \A key \in DOMAIN d :
          LET last == CHOOSE i \in Carriers :
                         /\ key \in DOMAIN extents[i][part]
                         /\ \A j \in Carriers :
                               key \in DOMAIN extents[j][part] => j <= i
          IN  d[key] = extents[last][part][key]

\* C15: for a virtual container metadata_from_h5py_file visits every extent
\* and returns the merge of the metadata groups of exactly the extents that
\* carry one; an extent without a group contributes nothing and is no error,
\* and with no group at all the result is None, again without error.
C15_VirtualMergesCarriers ==
    (m_pc \in {"read", "raised"} /\ is_virtual /\ has_data) =>
        /\ m_pc = "read"
        /\ Len(md_list) = Cardinality(Carriers)
        /\ IF Carriers = {} THEN metadata = None
           ELSE /\ MergedOver(metadata.attrs, "attrs")
                /\ MergedOver(metadata.dsets, "dsets")

C15_Witness ==
    /\ m_pc = "read"
    /\ is_virtual
    /\ Len(extents) = 3
    /\ Carriers = {2, 3}
    /\ DOMAIN metadata.attrs = {"a"}
    /\ DOMAIN metadata.dsets = {"d"}

\* C16: metadata_from_h5py_file ends in a fatal error, and returns no
\* bundle, whenever 'data' is missing from a physical extent of the
\* container, as it does when 'data' is missing from the container file.
C16_MissingDataIsFatal ==
    (m_pc \in {"read", "raised"}
        /\ (~has_data \/ \E i \in 1..Len(part_data) : ~part_data[i])) =>
        /\ m_pc = "raised"
        /\ metadata = None


---------------------------------------------------------------------------
\* Properties of check_workers_available (checked under SpecWorkers).

\* C17: check_workers_available waits at most `timeout` for the quorum of
\* int(totalWorkers**0.7) workers; if the quorum is not reached in that time
\* it still returns normally and never raises because of the shortfall.
C17_ShortfallIsNotFatal ==
    /\ elapsed <= timeout
    /\ w_pc # "raised"

---------------------------------------------------------------------------
\* Properties of fooofspy_cF (checked under SpecFooofKernel).

\* C18: called with timeAxis != 0, fooofspy_cF raises in planning mode as
\* well as in execution mode: no call returns a shape or an array, and the
\* backend is never invoked.
C18_AxisOrderRejectedInPlanning ==
    cf_timeAxis # 0 =>
        /\ cf_pc \in {"ready", "raised"}
        /\ cf_outShape = <<>>
        /\ cf_res = <<>>
        /\ ~cf_backend

\* A planning call with timeAxis = 1 has been made.
C18_Witness ==
    /\ cf_timeAxis = 1
    /\ cf_noCompute
    /\ cf_pc = "raised"

\* C20: the shape fooofspy_cF returns in planning mode equals the shape of
\* the array it returns in execution mode, for every input trial shape.
C20_PlannedShapeIsComputedShape ==
    (cf_pc = "computed" /\ cf_outShape # <<>>) => cf_res = cf_outShape

---------------------------------------------------------------------------
\* Properties of the planning of mtmfft (checked under Spec).

\* The spectrum of segment k on its own: (nTaper, nChannels, nFreq_k) with
\* nFreq_k = floor(_nextpow2(obj.shapes[k][1]) / 2) + 1; taper and channel
\* axes are those of the whole input.
SegFreq(k) == (_nextpow2(shapes[k + 1]) \div 2) + 1
ShapesDiffer == \E j, k \in Segs : SegFreq(j) # SegFreq(k)

\* C19: when the output shapes of two segments differ on an axis other than
\* the one they are laid along, the planning of mtmfft (everything before the
\* dispatch) ends in an exception, with no segment computed and no slab
\* written.
C19_ShapeMismatchFatalInPlanning ==
    (ShapesDiffer /\ pc # "start") =>
        /\ pc = "raised"
        /\ \A k \in Segs : ~Started(k)
        /\ \A i \in 1..Len(writers) : writers[i] = <<>>

---------------------------------------------------------------------------
\* Properties of logging (checked under SpecLog).

---------------------------------------------------------------------------
\* Properties of the two paths of mtmfft (checked under Spec).

\* The container as the serial loop leaves it: slabs are assigned in segment
\* order, and the loop ends at the first segment whose kernel raises.
RECURSIVE SerialLoop(_, _)
SerialLoop(k, r) ==
    IF k = NSegs \/ KernelRaises(k) THEN r
    ELSE SerialLoop(k + 1, [i \in 1..Len(r) |->
                               IF i \in Slab(k) THEN Spectrum(k)[i - k * nFreq]
                               ELSE r[i]])

SerialContents == SerialLoop(0, [i \in 1..(nFreq * NSegs) |-> Zero])

\* mtmfft has returned or raised and no writer is at work any more.
PathOver ==
    /\ pc \in {"done", "raised"}
    /\ \A k \in Segs : task[k + 1].st \notin {"computed", "writing"}

C24_FinalizeAfterAllWritten ==
    pc \in {"finalize", "done"} =>
        \A k \in 1..Len(task) : task[k].st = "written"

\* The parallel path has finalized an output of several segments.
C24_Witness ==
    /\ use_dask
    /\ pc = "done"
    /\ Len(task) >= 2
    /\ out.data = "memmap"

---------------------------------------------------------------------------
\* C25: an invocation of a kernel, in planning or in execution mode, leaves
\* the parameter bundle, method_kwargs included, as it was passed.
C25_BundleUnchanged ==
    [][kw' = kw /\ method_kwargs' = method_kwargs]_vars

---------------------------------------------------------------------------
\* Properties of the unpacking of FOOOF metadata (checked under SpecFooof).

\* The slices of count[i] rows that begin at the running offset
\* count[1] + ... + count[i-1].
RunningSlices(stacked, count) ==
    [i \in 1..Len(count) |->
        SubSeq(stacked, SumTo(count, i - 1) + 1, SumTo(count, i))]

GaussianLabel(t) == encode_unique_md_label("gaussian_params", t, 0)
PeakLabel(t) == encode_unique_md_label("peak_params", t, 0)
StackedGaussian(t) == pack_singletrial_metadata_fooof_into_hdf5(details[t]).gaussian_params.val
StackedPeak(t) == pack_singletrial_metadata_fooof_into_hdf5(details[t]).peak_params.val

\* C26: entry i of each unpacked list is the slice of count[i] rows of the
\* stacked array that begins at the running offset, so the entries do not
\* overlap and together cover the stacked array.
C26_SlicesAtRunningOffset ==
    m_pc = "attached" =>
        \A t \in DOMAIN details : \A l \in {GaussianLabel(t), PeakLabel(t)} :
            metadata.attrs[l].islist =>
                \E stacked \in {StackedGaussian(t), StackedPeak(t)} :
                    metadata.attrs[l].val = RunningSlices(stacked, details[t].n_peaks)

\* C27: after the unpacking the gaussian_params label holds the list unpacked
\* from the stacked gaussian parameters and the peak_params label the list
\* unpacked from the stacked peak parameters.
C27_IndependentDestinations ==
    m_pc = "attached" =>
        \A t \in DOMAIN details :
            /\ metadata.attrs[GaussianLabel(t)] =
                  List(UnpackLoop(StackedGaussian(t), details[t].n_peaks, 1, 0))
            /\ metadata.attrs[PeakLabel(t)] =
                  List(UnpackLoop(StackedPeak(t), details[t].n_peaks, 1, 0))

---------------------------------------------------------------------------
\* C29: FooofSpy.process_metadata completes without raising when the output
\* file carries no metadata group (metadata_from_h5py_file returns None); the
\* output's metadata is then absent.
C29_NoMetadataGroupIsNotFatal ==
    (m_pc \in {"attached", "raised"}
         /\ ~HasGroup(metadata_from_h5py_file(is_virtual, extents))) =>
        /\ m_pc = "attached"
        /\ metadata = None

---------------------------------------------------------------------------
\* Properties relating _make_trialdef to the kernels (checked under
\* SpecTrialdef).

\* The arguments the kernels get for the configuration cfg, and trial k of the
\* source as they see it in planning: nSamples x 1 channel, time axis first.
KernelArgs == [NoArgs EXCEPT !.toikind = cfg.toikind, !.toisize = Len(cfg.toi)]
KernelKwargs ==
    [NoMethodKwargs EXCEPT !.nperseg = cfg.method_kwargs.nperseg,
                           !.noverlap = cfg.method_kwargs.noverlap]
SourceShape(k) == <<td_orig[k].stop - td_orig[k].start, 1>>

\* nTime of the outShape planned for trial k.
ConvolRows(k) == mtmconvol_cF_plan(SourceShape(k), KernelArgs, KernelKwargs)[1]
CwtRows(k) == cwt_cF_plan(SourceShape(k), KernelArgs, KernelKwargs)[1]

\* C28: under each toi policy the length stop - start of row k of the table
\* _make_trialdef returns equals the leading-axis size the kernel plans for
\* trial k with the same configuration (wavelet_cF and superlet_cF take an
\* array or 'all').
C28_RowsMatchPlannedSlabs ==
    (TdCalled /\ td_pc = "returned") =>
        \A k \in 1..Len(td_ret) :
            /\ td_ret[k].stop - td_ret[k].start = ConvolRows(k)
            /\ cfg.toikind # "number" =>
                  td_ret[k].stop - td_ret[k].start = CwtRows(k)

\* C30: _make_trialdef leaves the table its caller passes as it was: after
\* the call, under any toi policy, that table still holds the original
\* boundaries and trigger offsets.
C30_CallerTableUntouched ==
    TdCalled => trialdefinition = td_orig

====
